---- MODULE Spec2Model ----
(***************************************************************************)
(* Record / RecordList layer of openerp_proxy (src/openerp_proxy/orm/      *)
(* record.py): proxies of remote records over a shared, per-object-type    *)
(* cache.  The cache classes themselves (openerp_proxy/orm/cache.py) are   *)
(* not part of the sources at hand; their operations are modelled from the *)
(* specification (sections 3 and 4.1) and are marked so below.             *)
(***************************************************************************)
EXTENDS Integers, Sequences, FiniteSets, TLC

VARIABLES
    caches,   \* the Cache instances created so far: caches[c][objname] is a scope
    recs,     \* the Record instances held by the caller
    lists,    \* the RecordList instances held by the caller
    exists,   \* the ids that exist on the remote side (fixed during a run)
    last,     \* what the last operation did: remote calls issued, result, ...
    prev,     \* the operation before the last one, in brief
    batch,    \* the current run of field accesses on one scope and field
    nops,     \* number of operations performed so far
    pending   \* the refresh() calls of a refresh in progress still to be made

vars == <<caches, recs, lists, exists, last, prev, batch, nops, pending>>

----------------------------------------------------------------------------
(* Bounds of the model *)

MaxId == 2
MaxLen == 3
MaxCaches == 3
MaxRecs == 2
MaxLists == 3
MaxOps == 3
MaxNeg == 2
MaxNew == 2

----------------------------------------------------------------------------
(* The remote side: object types, their columns, ids and values *)

Objs == {"res.partner", "res.company"}
Fields == {"name", "ref"}
Ids == 1..MaxId
Vals == {"a", "b"}
Absent == "<absent>"
None == "<None>"

\* A context: None, or a dict over the single key 'lang'.
NoneCtx == [none |-> TRUE, lang |-> None]
EmptyCtx == [none |-> FALSE, lang |-> None]
FrCtx == [none |-> FALSE, lang |-> "fr"]
EnCtx == [none |-> FALSE, lang |-> "en"]

\* What the remote answers to one call: it fails, or it answers with the value
\* the remote data has at that time (the data may change between two calls).
Oracles == {[fail |-> TRUE, val |-> "a"]} \cup {[fail |-> FALSE, val |-> v] : v \in Vals}

\* the answer handed to an operation that makes no remote call
NoAnswer == [fail |-> FALSE, val |-> "a"]

Range(s) == {s[i] : i \in 1..Len(s)}

\* Object.read(ids, fields, context): one row per requested id that exists.
RemoteRead(ids, fields, orc) ==
    [i \in (ids \cap exists) |->
        [f \in Fields |-> IF f \in fields THEN orc.val ELSE Absent]]

ReadCall(obj, ids, fields, ctx) ==
    [method |-> "read", obj |-> obj, ids |-> ids, fields |-> fields, ctx |-> ctx]

\* the raw value of a many2one field: False, an id, or a pair (id, label)
RawFalse == [kind |-> "false", id |-> 0, pair |-> <<>>]
RawId(n) == [kind |-> "id", id |-> n, pair |-> <<>>]
RawPair(n) == [kind |-> "pair", id |-> 0, pair |-> <<n, "Acme">>]
RawVals == {RawFalse} \cup {RawId(n) : n \in Ids} \cup {RawPair(n) : n \in Ids}

\* no raw value of the field is in the data dictionary of the id
RawAbsent == [kind |-> "absent", id |-> 0, pair |-> <<>>]

----------------------------------------------------------------------------
(* Cache and per-type scope (openerp_proxy.orm.cache) *)

NoData == [f \in Fields |-> Absent]

\* The data dictionary of an id is kept in two parts: data[id] holds its char
\* columns (Fields), rel[id] the raw value of its many2one column 'company_id'.
EmptyScope == [keys |-> {}, data |-> [i \in Ids |-> NoData], ctx |-> NoneCtx,
               rel |-> [i \in Ids |-> RawAbsent]]

\* empty_cache(proxy)
EmptyCache == [o \in Objs |-> EmptyScope]

\* lcache[id]: the data dictionary of an id, created on first use.
Vivify(sc, id) == [sc EXCEPT !.keys = @ \cup {id}]

\* lcache.update_keys(ids)
UpdateKeys(sc, ids) == [sc EXCEPT !.keys = @ \cup ids]

\* lcache.get_ids_to_read(field)
GetIdsToRead(sc, f) == {i \in sc.keys : sc.data[i][f] = Absent}

\* lcache.cache_field(id, ftype, name, value)
CacheField(sc, id, f, v) ==
    [sc EXCEPT !.keys = @ \cup {id}, !.data[id][f] = v]

\* the loop of _get_field over the rows read: cache_field for each of them
RECURSIVE CacheRows(_, _, _, _)
CacheRows(sc, rows, ids, f) ==
    IF ids = {} THEN sc
    ELSE LET i == CHOOSE x \in ids : TRUE
         IN CacheRows(CacheField(sc, i, f, rows[i][f]), rows, ids \ {i}, f)

\* lcache.update_context(new_context)
MergeCtx(old, new) ==
    IF new.none THEN old
    ELSE [none |-> FALSE, lang |-> IF new.lang = None THEN old.lang ELSE new.lang]

UpdateContext(sc, ctx) == [sc EXCEPT !.ctx = MergeCtx(@, ctx)]

----------------------------------------------------------------------------
(* Results of an operation, as the caller sees them *)

Res(kind, val) == [kind |-> kind, val |-> val]
NoRes == Res("none", None)
KeyError == Res("KeyError", None)
RemoteError == Res("RemoteError", None)

\* cs with the scope of object type o in cache c replaced by sc
SetScope(cs, c, o, sc) == [cs EXCEPT ![c][o] = sc]

----------------------------------------------------------------------------
(* Record *)

\* columns_info: the relation columns (every object type of the model has
\* them), their type and their 'relation' target
RelFields == {"company_id", "child_ids"}
FieldType(name) ==
    IF name = "company_id" THEN "many2one"
    ELSE IF name = "child_ids" THEN "one2many" ELSE "char"
Relation(name) == IF name = "company_id" THEN "res.company" ELSE "res.partner"

\* an entry of _related_objects: nothing memoized ("none"), False, a Record or
\* a RecordList; ids are the ids of the Record or list, stamp tells the
\* instances apart (the number of the operation that made the instance, or the
\* place of the instance among those the caller holds)
Entry(kind, obj, ids, cache, stamp) ==
    [kind |-> kind, obj |-> obj, ids |-> ids, cache |-> cache, stamp |-> stamp]
NoEntry == Entry("none", None, <<>>, 0, 0)
FalseEntry == Entry("false", None, <<>>, 0, 0)

\* RecordRelations.__init__: self._related_objects = {}
NoRelated == [n \in RelFields |-> NoEntry]

\* Record.__init__ through get_record(obj, rid, cache, context); cref = 0 stands
\* for cache=None.  Yields the caches afterwards and the new Record.
RecordInit(cs, obj, rid, cref, ctx) ==
    LET cs1 == IF cref = 0 THEN Append(cs, EmptyCache) ELSE cs
        c == IF cref = 0 THEN Len(cs) + 1 ELSE cref
        cs2 == IF ctx.none THEN cs1
               ELSE SetScope(cs1, c, obj, UpdateContext(cs1[c][obj], ctx))
    IN [caches |-> cs2,
        rec |-> [obj |-> obj, id |-> rid, cache |-> c, related |-> NoRelated,
                 attrs |-> {}]]

\* the outcome of _get_field in scope sc0 when the remote is asked for ids
Fetch(cs, r, f, orc, sc0, ids) ==
    LET call == ReadCall(r.obj, ids, {f}, sc0.ctx)
        rows == RemoteRead(ids, {f}, orc)
        sc1 == CacheRows(sc0, rows, DOMAIN rows, f)
    IN IF orc.fail
       THEN [caches |-> SetScope(cs, r.cache, r.obj, sc0), calls |-> <<call>>,
             result |-> RemoteError]
       ELSE [caches |-> SetScope(cs, r.cache, r.obj, sc1), calls |-> <<call>>,
             result |-> IF sc1.data[r.id][f] = Absent THEN KeyError
                        ELSE Res("value", sc1.data[r.id][f])]

\* _get_field asking the remote for the Record's own id only
GetFieldOwnId(cs, r, f, orc) ==
    LET sc0 == Vivify(cs[r.cache][r.obj], r.id)
    IN IF sc0.data[r.id][f] # Absent
       THEN [caches |-> SetScope(cs, r.cache, r.obj, sc0), calls |-> <<>>,
             result |-> Res("value", sc0.data[r.id][f])]
       ELSE Fetch(cs, r, f, orc, sc0, {r.id})

\* _get_field asking the remote whether or not the field is cached
GetFieldNoCache(cs, r, f, orc) ==
    LET sc0 == Vivify(cs[r.cache][r.obj], r.id)
    IN Fetch(cs, r, f, orc, sc0, GetIdsToRead(sc0, f) \cup {r.id})

\* Record._get_field(ftype, name) of the base class
GetField(cs, r, f, orc) ==
    LET sc0 == Vivify(cs[r.cache][r.obj], r.id)
    IN IF sc0.data[r.id][f] # Absent
       THEN [caches |-> SetScope(cs, r.cache, r.obj, sc0), calls |-> <<>>,
             result |-> Res("value", sc0.data[r.id][f])]
       ELSE Fetch(cs, r, f, orc, sc0, GetIdsToRead(sc0, f))

\* Record.__getitem__(name)
GetItem(cs, r, name, orc) ==
    IF name = "id"
    THEN [caches |-> cs, calls |-> <<>>, result |-> Res("id", None)]
    ELSE IF name \notin Fields
    THEN [caches |-> cs, calls |-> <<>>, result |-> KeyError]
    ELSE GetField(cs, r, name, orc)

\* refresh() that leaves the cached fields of the id in place
RecordRefreshKeep(cs, r) ==
    SetScope(cs, r.cache, r.obj, Vivify(cs[r.cache][r.obj], r.id))

\* Record.refresh()
RecordRefresh(cs, r) ==
    SetScope(cs, r.cache, r.obj,
             [Vivify(cs[r.cache][r.obj], r.id) EXCEPT !.data[r.id] = NoData,
                                                      !.rel[r.id] = RawAbsent])

\* the rows of one read merged with dict.update into the scope (Record.read)
UpdateRows(sc, rows) ==
    [sc EXCEPT !.keys = @ \cup DOMAIN rows,
               !.data = [i \in Ids |->
                            IF i \in DOMAIN rows
                            THEN [f \in Fields |->
                                    IF rows[i][f] # Absent THEN rows[i][f]
                                    ELSE @[i][f]]
                            ELSE @[i]]]

\* Record.read(fields, context, multi); fields is a set of names, Fields itself
\* standing for fields=None (the remote then reads every field).
RecordRead(cs, r, fields, ctx, multi, orc) ==
    LET sc == cs[r.cache][r.obj]
        ids == IF multi THEN sc.keys ELSE {r.id}
        sent == IF sc.ctx.none \/ sc.ctx.lang = None THEN NoneCtx ELSE sc.ctx
        call == ReadCall(r.obj, ids, fields, sent)
        rows == RemoteRead(ids, fields, orc)
    IN IF orc.fail
       THEN [caches |-> cs, calls |-> <<call>>, result |-> RemoteError]
       ELSE [caches |-> SetScope(cs, r.cache, r.obj, UpdateRows(sc, rows)),
             calls |-> <<call>>,
             result |-> IF r.id \in DOMAIN rows THEN Res("row", None)
                        ELSE Res("empty", None)]

----------------------------------------------------------------------------
(* Python list primitives used by RecordList *)

Min(a, b) == IF a < b THEN a ELSE b
Max(a, b) == IF a > b THEN a ELSE b

\* a slice bound as list slicing normalises it: negative counts from the end,
\* then clamped to 0..len
Clamp(i, n) == IF i < 0 THEN Max(i + n, 0) ELSE Min(i, n)

\* s[i:j] of a Python list (0-based bounds)
PySlice(s, i, j) ==
    LET lo == Clamp(i, Len(s))
        hi == Clamp(j, Len(s))
    IN IF lo < hi THEN SubSeq(s, lo + 1, hi) ELSE <<>>

\* list.insert(index, x) (0-based index)
PyInsert(s, index, x) ==
    LET k == Clamp(index, Len(s))
    IN SubSeq(s, 1, k) \o <<x>> \o SubSeq(s, k + 1, Len(s))

----------------------------------------------------------------------------
(* RecordList *)

\* the ids argument of the constructor: a list, or a generator, which can be
\* iterated once only
Iter(items, gen) == [items |-> items, gen |-> gen]

\* what is left of an iterable after it has been iterated to its end
Exhaust(it) == IF it.gen THEN Iter(<<>>, TRUE) ELSE it

\* the fields argument: None, or a set of names
NoFields == [none |-> TRUE, names |-> {}]
SomeFields(names) == [none |-> FALSE, names |-> names]

\* RecordList.ids
IdsOf(l) == [p \in 1..Len(l.items) |-> l.items[p].id]

\* lcache.prefetch_fields(fields): one read of the ids lacking any of the fields
PrefetchFields(cs, c, obj, fields, orc) ==
    LET sc == cs[c][obj]
        ids == UNION {GetIdsToRead(sc, f) : f \in fields}
        call == ReadCall(obj, ids, fields, sc.ctx)
    IN IF orc.fail
       THEN [caches |-> cs, calls |-> <<call>>, result |-> RemoteError]
       ELSE [caches |-> SetScope(cs, c, obj,
                                 UpdateRows(sc, RemoteRead(ids, fields, orc))),
             calls |-> <<call>>, result |-> NoRes]

\* ObjectRecords.simple_fields: no column of the model is binary or computed
SimpleFields == Fields

\* prefetch that fetches every simple field whatever it is asked for
ListPrefetchAll(cs, l, fields, orc) ==
    PrefetchFields(cs, l.cache, l.obj, SimpleFields, orc)

\* RecordList.prefetch(*fields)
ListPrefetchOp(cs, l, fields, orc) ==
    PrefetchFields(cs, l.cache, l.obj,
                   IF fields = {} THEN SimpleFields ELSE fields, orc)

\* a constructor that prefetches whether or not fields are given
RecordListInitEager(cs, obj, it, fields, cref, ctx, orc) ==
    LET cs1 == IF cref = 0 THEN Append(cs, EmptyCache) ELSE cs
        c == IF cref = 0 THEN Len(cs) + 1 ELSE cref
        sc1 == IF ctx.none THEN cs1[c][obj] ELSE UpdateContext(cs1[c][obj], ctx)
        sc2 == UpdateKeys(sc1, Range(it.items))
        left == Exhaust(it).items
        cs2 == SetScope(cs1, c, obj, sc2)
        l == [obj |-> obj, cache |-> c,
              items |-> [p \in 1..Len(left) |->
                            RecordInit(cs2, obj, left[p], c, NoneCtx).rec]]
        pf == ListPrefetchOp(cs2, l, fields.names, orc)
    IN [caches |-> pf.caches, list |-> l, calls |-> pf.calls, result |-> pf.result]

\* RecordList.__init__ through get_record_list(obj, ids, fields, cache, context);
\* cref = 0 stands for cache=None.  Yields the caches afterwards, the new list,
\* the remote calls issued and the result (RemoteError: no list is returned).
RecordListInit(cs, obj, it, fields, cref, ctx, orc) ==
    LET cs1 == IF cref = 0 THEN Append(cs, EmptyCache) ELSE cs
        c == IF cref = 0 THEN Len(cs) + 1 ELSE cref
        sc1 == IF ctx.none THEN cs1[c][obj] ELSE UpdateContext(cs1[c][obj], ctx)
        sc2 == UpdateKeys(sc1, Range(it.items))
        left == Exhaust(it).items
        cs2 == SetScope(cs1, c, obj, sc2)
        l == [obj |-> obj, cache |-> c,
              items |-> [p \in 1..Len(left) |->
                            RecordInit(cs2, obj, left[p], c, NoneCtx).rec]]
        pf == ListPrefetchOp(cs2, l, fields.names, orc)
    IN IF fields.none
       THEN [caches |-> cs2, list |-> l, calls |-> <<>>, result |-> NoRes]
       ELSE [caches |-> pf.caches, list |-> l, calls |-> pf.calls,
             result |-> pf.result]

\* RecordList.__getitem__(slice(i, j))
ListSlice(cs, l, i, j) ==
    RecordListInit(cs, l.obj, Iter(PySlice(IdsOf(l), i, j), TRUE), NoFields,
                   l.cache, NoneCtx, NoAnswer)


\* ObjectRecords.read_records(ids, fields, context, cache) for an integer ids
ReadRecordsInt(cs, obj, rid, fields, ctx, cref, orc) ==
    LET made == RecordInit(cs, obj, rid, 0, ctx)
        rd == RecordRead(made.caches, made.rec, fields.names, NoneCtx, FALSE, orc)
    IN IF fields.none
       THEN [caches |-> made.caches, rec |-> made.rec, calls |-> <<>>,
             result |-> NoRes]
       ELSE [caches |-> rd.caches, rec |-> made.rec, calls |-> rd.calls,
             result |-> IF rd.result = RemoteError THEN RemoteError ELSE NoRes]

\* ObjectRecords.read_records(ids, fields, context, cache) for a list of ids
ReadRecordsList(cs, obj, ids, fields, ctx, cref, orc) ==
    RecordListInit(cs, obj, Iter(ids, FALSE), fields, 0, ctx, orc)

\* RecordList.insert(index, item) for a Record
ListInsert(l, index, item) == [l EXCEPT !.items = PyInsert(@, index, item)]

\* insert of a bare id that ignores the index and appends
ListInsertIdAppend(cs, l, index, rid) ==
    LET made == ReadRecordsInt(cs, l.obj, rid, NoFields, NoneCtx, 0, NoAnswer)
    IN [caches |-> made.caches, list |-> ListInsert(l, Len(l.items), made.rec)]

\* RecordList.insert(index, item) for a bare id
ListInsertId(cs, l, index, rid) ==
    LET made == ReadRecordsInt(cs, l.obj, rid, NoFields, NoneCtx, 0, NoAnswer)
    IN [caches |-> made.caches, list |-> ListInsert(l, index, made.rec)]

\* copy that keeps the Cache of the source whatever new_cache says
ListCopyShared(cs, l, ctx, newCache) ==
    RecordListInit(cs, l.obj, Iter(IdsOf(l), FALSE), NoFields, l.cache, ctx,
                   NoAnswer)

\* RecordList.copy(context, new_cache)
ListCopy(cs, l, ctx, newCache) ==
    RecordListInit(cs, l.obj, Iter(IdsOf(l), FALSE), NoFields,
                   IF newCache THEN 0 ELSE l.cache, ctx, NoAnswer)

\* the loop without its test for duplicates
RECURSIVE FilterExistingDup(_, _, _, _)
FilterExistingDup(ids, existing, uniqify, newIds) ==
    IF ids = <<>> THEN newIds
    ELSE FilterExistingDup(Tail(ids), existing, uniqify,
            IF Head(ids) \notin existing THEN newIds
            ELSE Append(newIds, Head(ids)))

\* the loop of RecordList.existing over self.ids
RECURSIVE FilterExisting(_, _, _, _)
FilterExisting(ids, existing, uniqify, newIds) ==
    IF ids = <<>> THEN newIds
    ELSE FilterExisting(Tail(ids), existing, uniqify,
            IF Head(ids) \notin existing THEN newIds
            ELSE IF uniqify /\ Head(ids) \in Range(newIds) THEN newIds
            ELSE Append(newIds, Head(ids)))

ExistsCall(obj, ids, ctx) ==
    [method |-> "exists", obj |-> obj, ids |-> ids, fields |-> {}, ctx |-> ctx]

\* RecordList.existing(uniqify); the remote 'exists' answers with the ids that
\* exist, or fails
ListExisting(cs, l, uniqify, fail) ==
    LET call == ExistsCall(l.obj, Range(IdsOf(l)), cs[l.cache][l.obj].ctx)
        newIds == FilterExisting(IdsOf(l), Range(IdsOf(l)) \cap exists, uniqify, <<>>)
        made == RecordListInit(cs, l.obj, Iter(newIds, FALSE), NoFields, l.cache,
                               NoneCtx, NoAnswer)
    IN IF fail
       THEN [caches |-> cs, list |-> l, calls |-> <<call>>, result |-> RemoteError]
       ELSE [caches |-> made.caches, list |-> made.list, calls |-> <<call>>,
             result |-> NoRes]

\* RecordList.refresh(): refresh of every record, in order
RECURSIVE RefreshAll(_, _)
RefreshAll(cs, items) ==
    IF items = <<>> THEN cs
    ELSE RefreshAll(RecordRefresh(cs, Head(items)), Tail(items))

----------------------------------------------------------------------------
(* RecordRelations: resolution of relation fields, memoized per Record *)

\* 'if rel_data': False is falsy, an id (never 0) and a pair are not
Truthy(raw) == raw.kind # "false"

\* rel_data[0] if isinstance(rel_data, (list, tuple)) else rel_data
RelId(raw) == IF raw.kind = "pair" THEN raw.pair[1] ELSE raw.id

\* many2one resolution that gives the related Record a Cache of its own
GetMany2OneNewCache(cs, r, name, raw, cached, stamp) ==
    IF r.related[name].kind # "none" /\ cached
    THEN [caches |-> cs, rec |-> r, entry |-> r.related[name]]
    ELSE IF Truthy(raw)
    THEN LET made == RecordInit(cs, Relation(name), RelId(raw), 0,
                                cs[r.cache][r.obj].ctx)
             e == Entry("record", made.rec.obj, <<made.rec.id>>, made.rec.cache,
                        stamp)
         IN [caches |-> made.caches, rec |-> [r EXCEPT !.related[name] = e],
             entry |-> e]
    ELSE [caches |-> cs, rec |-> [r EXCEPT !.related[name] = FalseEntry],
          entry |-> FalseEntry]

\* many2one resolution that never looks at what is memoized
GetMany2OneNoMemo(cs, r, name, raw, cached, stamp) ==
    IF Truthy(raw)
    THEN LET made == RecordInit(cs, Relation(name), RelId(raw), r.cache,
                                cs[r.cache][r.obj].ctx)
             e == Entry("record", made.rec.obj, <<made.rec.id>>, made.rec.cache,
                        stamp)
         IN [caches |-> made.caches, rec |-> [r EXCEPT !.related[name] = e],
             entry |-> e]
    ELSE [caches |-> cs, rec |-> [r EXCEPT !.related[name] = FalseEntry],
          entry |-> FalseEntry]

\* RecordRelations._get_many2one_rel_obj(name, rel_data, cached); stamp marks
\* a Record made by this call.  Yields the caches afterwards, the Record with
\* its memo, and what is returned.
GetMany2OneRelObj(cs, r, name, raw, cached, stamp) ==
    IF r.related[name].kind # "none" /\ cached
    THEN [caches |-> cs, rec |-> r, entry |-> r.related[name]]
    ELSE IF Truthy(raw)
    THEN LET made == RecordInit(cs, Relation(name), RelId(raw), r.cache,
                                cs[r.cache][r.obj].ctx)
             e == Entry("record", made.rec.obj, <<made.rec.id>>, made.rec.cache,
                        stamp)
         IN [caches |-> made.caches, rec |-> [r EXCEPT !.related[name] = e],
             entry |-> e]
    ELSE [caches |-> cs, rec |-> [r EXCEPT !.related[name] = FalseEntry],
          entry |-> FalseEntry]

\* RecordRelations._get_one2many_rel_obj(name, rel_ids, cached)
GetOne2ManyRelObj(cs, r, name, relIds, cached, stamp) ==
    IF r.related[name].kind # "none" /\ cached
    THEN [caches |-> cs, rec |-> r, entry |-> r.related[name]]
    ELSE LET made == RecordListInit(cs, Relation(name), Iter(relIds, FALSE),
                                    NoFields, r.cache, cs[r.cache][r.obj].ctx,
                                    NoAnswer)
             e == Entry("list", made.list.obj, IdsOf(made.list), made.list.cache,
                        stamp)
         IN [caches |-> made.caches, rec |-> [r EXCEPT !.related[name] = e],
             entry |-> e]

\* rel.refresh() for a memoized Record or RecordList
RefreshEntry(cs, e) ==
    IF e.kind \in {"record", "list"}
    THEN RefreshAll(cs, [p \in 1..Len(e.ids) |->
                            [obj |-> e.obj, id |-> e.ids[p], cache |-> e.cache]])
    ELSE cs

\* the loop of RecordRelations.refresh over the memoized relations
RECURSIVE RefreshRelated(_, _, _)
RefreshRelated(cs, related, names) ==
    IF names = {} THEN cs
    ELSE LET n == CHOOSE x \in names : TRUE
         IN RefreshRelated(RefreshEntry(cs, related[n]), related, names \ {n})

\* RecordRelations.refresh(): yields the caches afterwards and the Record
RelationsRefresh(cs, r) ==
    [caches |-> RefreshRelated(RecordRefresh(cs, r), r.related, RelFields),
     rec |-> [r EXCEPT !.related = NoRelated]]

\* the loop of RecordList.refresh over the records still to refresh
RECURSIVE ListRefreshFrom(_, _, _)
ListRefreshFrom(cs, l, p) ==
    IF p > Len(l.items) THEN [caches |-> cs, list |-> l]
    ELSE LET rr == RelationsRefresh(cs, l.items[p])
         IN ListRefreshFrom(rr.caches, [l EXCEPT !.items[p] = rr.rec], p + 1)

\* RecordList.refresh(): yields the caches afterwards and the list
ListRefreshOp(cs, l) == ListRefreshFrom(cs, l, 1)

----------------------------------------------------------------------------
(* The caller: a sequence of operations on the Records and RecordLists held *)

\* a Record the caller can reach: <<0, i>> is recs[i], <<k, p>> is the p-th
\* element of lists[k]
Refs == {<<0, i>> : i \in 1..Len(recs)}
        \cup {<<k, p>> : k \in 1..Len(lists), p \in 1..MaxLen}
RecAt(ref) == IF ref[1] = 0 THEN recs[ref[2]] ELSE lists[ref[1]].items[ref[2]]
Valid(ref) == IF ref[1] = 0 THEN TRUE ELSE ref[2] <= Len(lists[ref[1]].items)

NoRef == <<0, 0>>

\* the Records and lists of the caller with the Record at ref replaced by r
RecsWith(ref, r) == IF ref[1] = 0 THEN [recs EXCEPT ![ref[2]] = r] ELSE recs
ListsWith(ref, r) ==
    IF ref[1] = 0 THEN lists ELSE [lists EXCEPT ![ref[1]].items[ref[2]] = r]

\* what a bound remote method holds: the ids and the context it will pass
Bound(ids, ctx) == [ids |-> ids, ctx |-> ctx]
NoBound == Bound(<<>>, NoneCtx)

\* the last operation: its name, what it was applied to (ref: a Record, lst: a
\* list), its arguments, the remote calls it issued, the value the remote
\* answered with, its result, and the index of the list it returned (made)
Blank == [op |-> "init", ref |-> NoRef, ref2 |-> NoRef, lst |-> 0, name |-> None,
          names |-> {},
          calls |-> <<>>, ans |-> None, result |-> NoRes, made |-> 0,
          i |-> 0, j |-> 0, rid |-> 0, flag |-> FALSE, ctx |-> NoneCtx,
          raw |-> RawFalse, ids |-> <<>>, entry |-> NoEntry, bound |-> NoBound,
          fnone |-> TRUE, cref |-> 0, domain |-> <<>>, keys |-> {}]

Brief(l) == [op |-> l.op, ref |-> l.ref, lst |-> l.lst, names |-> l.names,
             flag |-> l.flag, ans |-> l.ans, made |-> l.made,
             ok |-> l.result # RemoteError]

Answer(calls, orc) == IF calls = <<>> \/ orc.fail THEN None ELSE orc.val

\* a run of consecutive field accesses on one scope and one field: the reads
\* they issued, the Records that accessed, the ids registered when the first of
\* them looked for the ids to read (pop) and the ids that held the field when
\* the run began (had)
NoBatch == [on |-> FALSE, cache |-> 0, obj |-> None, name |-> None, reads |-> 0,
            readIds |-> {}, refs |-> {}, accIds |-> {}, twice |-> FALSE,
            pop |-> {}, had |-> {}, failed |-> FALSE]

BatchAfter(ref, name, got) ==
    LET r == RecAt(ref)
        sc == caches[r.cache][r.obj]
        cont == batch.on /\ batch.cache = r.cache /\ batch.obj = r.obj
                /\ batch.name = name
        base == IF cont THEN batch
                ELSE [NoBatch EXCEPT !.on = TRUE, !.cache = r.cache, !.obj = r.obj,
                                     !.name = name, !.pop = Vivify(sc, r.id).keys,
                                     !.had = {i \in Ids : sc.data[i][name] # Absent}]
    IN IF name \notin Fields THEN NoBatch
       ELSE [base EXCEPT !.reads = @ + Len(got.calls),
                         !.readIds = @ \cup UNION {got.calls[n].ids : n \in 1..Len(got.calls)},
                         !.refs = @ \cup {ref},
                         !.accIds = @ \cup {r.id},
                         !.twice = @ \/ ref \in base.refs,
                         !.failed = @ \/ got.result = RemoteError]

\* bookkeeping common to every operation
Done(newLast, newBatch) ==
    /\ last' = newLast
    /\ prev' = Brief(last)
    /\ batch' = newBatch
    /\ nops' = nops + 1
    /\ UNCHANGED <<exists, pending>>

\* the cache argument of a factory: 0 (None) or a Cache created before
CacheArgs == 0..Len(caches)
CanMake(cref) == IF cref = 0 THEN Len(caches) < MaxCaches ELSE TRUE

IdLists == UNION {[1..n -> Ids] : n \in 0..MaxLen}
Indexes == (0 - MaxNeg)..MaxLen

\* get_record(obj, rid, cache, context)
NewRecord(obj, rid, cref, ctx) ==
    /\ nops < MaxOps /\ Len(recs) < MaxRecs /\ CanMake(cref)
    /\ LET made == RecordInit(caches, obj, rid, cref, ctx)
       IN /\ caches' = made.caches
          /\ recs' = Append(recs, made.rec)
          /\ Done([Blank EXCEPT !.op = "get_record", !.ref = <<0, Len(recs) + 1>>,
                                !.rid = rid, !.ctx = ctx, !.flag = (cref = 0),
                                !.cref = cref],
                  batch)
    /\ UNCHANGED lists

\* get_record_list(obj, ids, fields, cache, context)
NewList(obj, ids, fields, cref, ctx, orc) ==
    /\ nops < MaxOps /\ Len(lists) < MaxLists /\ CanMake(cref)
    /\ LET made == RecordListInit(caches, obj, Iter(ids, FALSE), fields, cref, ctx, orc)
       IN /\ caches' = made.caches
          /\ lists' = IF made.result = RemoteError THEN lists
                      ELSE Append(lists, made.list)
          /\ Done([Blank EXCEPT !.op = "get_record_list",
                                !.made = IF made.result = RemoteError THEN 0
                                         ELSE Len(lists) + 1,
                                !.names = fields.names, !.flag = (cref = 0),
                                !.calls = made.calls, !.result = made.result,
                                !.ans = Answer(made.calls, orc), !.ctx = ctx,
                                !.ids = ids, !.fnone = fields.none, !.cref = cref],
                  NoBatch)
    /\ UNCHANGED recs

\* record[name]
RecGetItem(ref, name, orc) ==
    /\ nops < MaxOps /\ Valid(ref)
    /\ LET got == GetItem(caches, RecAt(ref), name, orc)
       IN /\ caches' = got.caches
          /\ Done([Blank EXCEPT !.op = "getitem", !.ref = ref, !.name = name,
                                !.calls = got.calls, !.result = got.result,
                                !.ans = Answer(got.calls, orc)],
                  BatchAfter(ref, name, got))
    /\ UNCHANGED <<recs, lists>>

\* record.refresh(); flag: some field of the id was cached before
RecRefresh(ref) ==
    /\ nops < MaxOps /\ Valid(ref)
    /\ LET rr == RelationsRefresh(caches, RecAt(ref))
       IN /\ caches' = rr.caches
          /\ recs' = RecsWith(ref, rr.rec)
          /\ lists' = ListsWith(ref, rr.rec)
    /\ Done([Blank EXCEPT !.op = "refresh", !.ref = ref,
                          !.flag = (caches[RecAt(ref).cache][RecAt(ref).obj]
                                        .data[RecAt(ref).id] # NoData)],
            NoBatch)

\* record.read(fields, context, multi)
RecRead(ref, fields, ctx, multi, orc) ==
    /\ nops < MaxOps /\ Valid(ref)
    /\ LET got == RecordRead(caches, RecAt(ref), fields, ctx, multi, orc)
       IN /\ caches' = got.caches
          /\ Done([Blank EXCEPT !.op = "read", !.ref = ref, !.flag = multi,
                                !.ctx = ctx, !.names = fields,
                                !.calls = got.calls, !.result = got.result,
                                !.ans = Answer(got.calls, orc)],
                  NoBatch)
    /\ UNCHANGED <<recs, lists>>

\* list.prefetch(*fields)
LPrefetch(k, fields, orc) ==
    /\ nops < MaxOps
    /\ LET got == ListPrefetchOp(caches, lists[k], fields, orc)
       IN /\ caches' = got.caches
          /\ Done([Blank EXCEPT !.op = "prefetch", !.lst = k, !.names = fields,
                                !.calls = got.calls, !.result = got.result,
                                !.ans = Answer(got.calls, orc)],
                  NoBatch)
    /\ UNCHANGED <<recs, lists>>

\* list.refresh()
LRefresh(k) ==
    /\ nops < MaxOps
    /\ LET rr == ListRefreshOp(caches, lists[k])
       IN /\ caches' = rr.caches
          /\ lists' = [lists EXCEPT ![k] = rr.list]
    /\ Done([Blank EXCEPT !.op = "list_refresh", !.lst = k], NoBatch)
    /\ UNCHANGED recs

\* list[i:j]
LSlice(k, i, j) ==
    /\ nops < MaxOps /\ Len(lists) < MaxLists
    /\ LET made == ListSlice(caches, lists[k], i, j)
       IN /\ caches' = made.caches
          /\ lists' = Append(lists, made.list)
          /\ Done([Blank EXCEPT !.op = "slice", !.lst = k, !.i = i, !.j = j,
                                !.made = Len(lists) + 1],
                  NoBatch)
    /\ UNCHANGED recs

\* list.insert(index, record)
LInsert(k, index, ref) ==
    /\ nops < MaxOps /\ Valid(ref) /\ Len(lists[k].items) < MaxLen
    /\ lists' = [lists EXCEPT ![k] = ListInsert(@, index, RecAt(ref))]
    /\ Done([Blank EXCEPT !.op = "insert", !.lst = k, !.i = index, !.ref = ref,
                          !.rid = RecAt(ref).id],
            NoBatch)
    /\ UNCHANGED <<caches, recs>>

\* list.insert(index, id)
LInsertId(k, index, rid) ==
    /\ nops < MaxOps /\ Len(lists[k].items) < MaxLen /\ CanMake(0)
    /\ LET made == ListInsertId(caches, lists[k], index, rid)
       IN /\ caches' = made.caches
          /\ lists' = [lists EXCEPT ![k] = made.list]
    /\ Done([Blank EXCEPT !.op = "insert_id", !.lst = k, !.i = index, !.rid = rid],
            NoBatch)
    /\ UNCHANGED recs

\* list.copy(context, new_cache)
LCopy(k, ctx, newCache) ==
    /\ nops < MaxOps /\ Len(lists) < MaxLists
    /\ (IF newCache THEN CanMake(0) ELSE TRUE)
    /\ LET made == ListCopy(caches, lists[k], ctx, newCache)
       IN /\ caches' = made.caches
          /\ lists' = Append(lists, made.list)
          /\ Done([Blank EXCEPT !.op = "copy", !.lst = k, !.flag = newCache,
                                !.ctx = ctx, !.made = Len(lists) + 1],
                  NoBatch)
    /\ UNCHANGED recs

\* list.existing(uniqify)
LExisting(k, uniqify, fail) ==
    /\ nops < MaxOps /\ Len(lists) < MaxLists
    /\ LET made == ListExisting(caches, lists[k], uniqify, fail)
       IN /\ caches' = made.caches
          /\ lists' = IF fail THEN lists ELSE Append(lists, made.list)
          /\ Done([Blank EXCEPT !.op = "existing", !.lst = k, !.flag = uniqify,
                                !.made = IF fail THEN 0 ELSE Len(lists) + 1,
                                !.calls = made.calls, !.result = made.result],
                  NoBatch)
    /\ UNCHANGED recs

----------------------------------------------------------------------------
(* Field access, read, refresh and prefetch on Records and lists that share *)
(* caches                                                                   *)

\* Initially the caller holds one Record, made by get_record(obj, rid) with a
\* Cache of its own.  Every id exists on the remote side, or the highest one has
\* been deleted there.
Init ==
    /\ \E rid \in Ids :
          LET made == RecordInit(<<>>, "res.partner", rid, 0, NoneCtx)
          IN caches = made.caches /\ recs = <<made.rec>>
    /\ lists = <<>>
    /\ exists \in {Ids, Ids \ {MaxId}}
    /\ last = Blank
    /\ prev = Brief(Blank)
    /\ batch = NoBatch
    /\ nops = 0
    /\ pending = <<>>

NewIdLists == UNION {[1..n -> Ids] : n \in 0..MaxNew}

Next ==
    \/ \E obj \in Objs, rid \in Ids, cref \in CacheArgs :
          NewRecord(obj, rid, cref, NoneCtx)
    \/ \E ids \in NewIdLists, cref \in CacheArgs :
          NewList("res.partner", ids, NoFields, cref, NoneCtx, NoAnswer)
    \/ \E ref \in Refs, name \in Fields, orc \in Oracles : RecGetItem(ref, name, orc)
    \/ \E ref \in Refs : RecRefresh(ref)
    \/ \E ref \in Refs, multi \in BOOLEAN, orc \in Oracles :
          RecRead(ref, IF multi THEN Fields ELSE {"name"}, NoneCtx, multi, orc)
    \/ \E k \in 1..Len(lists), fields \in {{"name"}, {}}, orc \in Oracles :
          LPrefetch(k, fields, orc)
    \/ \E k \in 1..Len(lists) : LRefresh(k)

Spec == Init /\ [][Next]_vars

----------------------------------------------------------------------------
(* Claims about field access and the shared cache *)

SameKey(r1, r2) == r1.obj = r2.obj /\ r1.id = r2.id /\ r1.cache = r2.cache

\* the N Records of a run each accessed the field once, and none held it before
OnceEach == batch.on /\ ~batch.twice /\ batch.accIds \cap batch.had = {}

\* no remote call of the run failed, and the Records accessed exist remotely
Served == ~batch.failed /\ batch.accIds \subseteq exists

\* C1 as stated: N Records of one type sharing one Cache, each accessing field F
\* once with F uncached for all of them, trigger at most one remote read in
\* total, and that read covers their ids (read in the claim's favour: the
\* remote answers every call and the Records exist there).
C1_AsStated ==
    (OnceEach /\ Served)
    => (batch.reads <= 1 /\ (batch.reads = 1 => batch.accIds \subseteq batch.readIds))

\* C1, amended: when the ids of the N Records are registered in the scope at the
\* first access (as the ids of a RecordList are), exist on the remote side, and
\* no remote call fails, the accesses trigger exactly one remote read, and it
\* covers the ids of all of them.
C1_Batching ==
    (OnceEach /\ Served /\ batch.accIds \subseteq batch.pop)
    => (batch.reads = 1 /\ batch.accIds \subseteq batch.readIds)

\* two Records with different ids have accessed the field, at the cost of one read
C1_Witness ==
    /\ OnceEach /\ Served /\ batch.accIds \subseteq batch.pop
    /\ Cardinality(batch.refs) >= 2 /\ Cardinality(batch.accIds) >= 2
    /\ batch.reads = 1

\* C2: once a field value of an id is in the Cache, whoever wrote it, an access
\* to the field through any Record of that object type, id and Cache returns
\* that value and issues no remote call.
C2_Sharing ==
    [][(last'.op = "getitem" /\ last'.name \in Fields
          /\ caches[RecAt(last'.ref).cache][RecAt(last'.ref).obj]
                .data[RecAt(last'.ref).id][last'.name] # Absent)
       => (/\ last'.calls = <<>>
           /\ last'.result =
                Res("value", caches[RecAt(last'.ref).cache][RecAt(last'.ref).obj]
                                .data[RecAt(last'.ref).id][last'.name]))]_vars

\* a value written by Record.read through one Record has been returned, without
\* a remote call, by an access through another Record of the same id and Cache
C2_Witness ==
    /\ last.op = "getitem" /\ last.calls = <<>> /\ last.result.kind = "value"
    /\ prev.op = "read" /\ prev.ok /\ prev.ref # last.ref
    /\ last.name \in prev.names
    /\ SameKey(RecAt(prev.ref), RecAt(last.ref))

\* C3: the access to a data field of an id that directly follows refresh() on a
\* Record of that id, through that Record or another one sharing the Cache,
\* issues a remote read of the field that includes the id.
C3_Refresh ==
    [][(last.op = "refresh" /\ last'.op = "getitem" /\ last'.name \in Fields
          /\ SameKey(RecAt(last.ref), RecAt(last'.ref)))
       => (/\ Len(last'.calls) = 1
           /\ last'.calls[1].method = "read"
           /\ RecAt(last.ref).id \in last'.calls[1].ids
           /\ last'.calls[1].fields = {last'.name})]_vars

\* a field that was cached before the refresh has been read again after it
C3_Witness ==
    /\ prev.op = "refresh" /\ prev.flag
    /\ last.op = "getitem" /\ Len(last.calls) = 1
    /\ SameKey(RecAt(prev.ref), RecAt(last.ref))

\* the scenario of C7: a RecordList made on a new Cache, then prefetch(F) on it,
\* which succeeds (prev and last); then an access to F through one of its Records
C7_Scenario ==
    /\ prev.op = "get_record_list" /\ prev.flag /\ prev.names = {} /\ prev.made # 0
    /\ last.op = "prefetch" /\ last.lst = prev.made
    /\ Cardinality(last.names) = 1 /\ last.result # RemoteError
    /\ last'.op = "getitem" /\ last'.ref[1] = last.lst /\ last'.name \in last.names

\* the prefetch issued exactly one read, of exactly the ids of the list and [F]
C7_OneRead ==
    last.calls = <<ReadCall(lists[last.lst].obj, Range(IdsOf(lists[last.lst])),
                            last.names, NoneCtx)>>

----------------------------------------------------------------------------
(* Equality and hash of Records *)

\* Record.__eq__(other) for a Record other
RecordEq(r, other) == other.id = r.id

\* Record.__eq__(other) for an integer other
RecordEqInt(r, n) == r.id = n

\* Record.__hash__: the hash of the pair (object name, id).  The pair stands
\* for its hash: the pairs of the model have pairwise distinct hashes.
RecordHash(r) == <<r.obj, r.id>>

\* r1 == r2; flag: the result
RecEq(ref, ref2) ==
    /\ nops < MaxOps /\ Valid(ref) /\ Valid(ref2)
    /\ Done([Blank EXCEPT !.op = "eq", !.ref = ref, !.ref2 = ref2,
                          !.flag = RecordEq(RecAt(ref), RecAt(ref2))],
            NoBatch)
    /\ UNCHANGED <<caches, recs, lists>>

\* r == n for an integer n; flag: the result
RecEqInt(ref, n) ==
    /\ nops < MaxOps /\ Valid(ref)
    /\ Done([Blank EXCEPT !.op = "eq_int", !.ref = ref, !.rid = n,
                          !.flag = RecordEqInt(RecAt(ref), n)],
            NoBatch)
    /\ UNCHANGED <<caches, recs, lists>>

\* hash(r1) == hash(r2); flag: the result
RecHashEq(ref, ref2) ==
    /\ nops < MaxOps /\ Valid(ref) /\ Valid(ref2)
    /\ Done([Blank EXCEPT !.op = "hash_eq", !.ref = ref, !.ref2 = ref2,
                          !.flag = (RecordHash(RecAt(ref)) = RecordHash(RecAt(ref2)))],
            NoBatch)
    /\ UNCHANGED <<caches, recs, lists>>

NextIdentity ==
    \/ \E obj \in Objs, rid \in Ids, cref \in CacheArgs :
          NewRecord(obj, rid, cref, NoneCtx)
    \/ \E ref \in Refs, ref2 \in Refs : RecEq(ref, ref2)
    \/ \E ref \in Refs, n \in Ids : RecEqInt(ref, n)
    \/ \E ref \in Refs, ref2 \in Refs : RecHashEq(ref, ref2)

\* the caller of Init makes Records and compares them
SpecIdentity == Init /\ [][NextIdentity]_vars

\* C4 as stated: two Records compare equal if and only if they have the same
\* object type and the same id.
C4_AsStated ==
    last.op = "eq"
    => (last.flag <=> (/\ RecAt(last.ref).obj = RecAt(last.ref2).obj
                       /\ RecAt(last.ref).id = RecAt(last.ref2).id))

\* C5 as stated: for every pair of Records r1, r2, r1 == r2 implies
\* hash(r1) == hash(r2).
C5_AsStated ==
    (last.op = "hash_eq" /\ RecordEq(RecAt(last.ref), RecAt(last.ref2)))
    => last.flag

----------------------------------------------------------------------------
(* Slices, insertions, copies and filtering of a RecordList *)

MaxListOps == 2

\* Initially the caller holds one RecordList, made by get_record_list(obj, ids)
\* with a Cache of its own.
InitList ==
    /\ \E ids \in IdLists :
          LET made == RecordListInit(<<>>, "res.partner", Iter(ids, FALSE),
                                     NoFields, 0, NoneCtx, NoAnswer)
          IN caches = made.caches /\ lists = <<made.list>>
    /\ recs = <<>>
    /\ exists \in {Ids, Ids \ {MaxId}}
    /\ last = Blank
    /\ prev = Brief(Blank)
    /\ batch = NoBatch
    /\ nops = 0
    /\ pending = <<>>

NextList ==
    \/ \E k \in 1..Len(lists), i \in Indexes, j \in Indexes :
          nops < MaxListOps /\ LSlice(k, i, j)
    \/ \E k \in 1..Len(lists), index \in Indexes, rid \in Ids :
          nops < MaxListOps /\ LInsertId(k, index, rid)
    \/ \E k \in 1..Len(lists), ctx \in {NoneCtx, FrCtx}, newCache \in BOOLEAN :
          nops < MaxListOps /\ LCopy(k, ctx, newCache)
    \/ \E k \in 1..Len(lists), uniqify \in BOOLEAN, fail \in BOOLEAN :
          nops < MaxListOps /\ LExisting(k, uniqify, fail)
    \/ \E k \in 1..Len(lists), fields \in {{"name"}, {}}, orc \in Oracles :
          nops < MaxListOps /\ LPrefetch(k, fields, orc)
    \/ \E k \in 1..Len(lists) : nops < MaxListOps /\ LRefresh(k)
    \/ \E ref \in Refs, name \in Fields, orc \in Oracles :
          nops < MaxListOps /\ RecGetItem(ref, name, orc)
    \/ \E ref \in Refs, orc \in Oracles :
          nops < MaxListOps /\ RecRead(ref, Fields, NoneCtx, TRUE, orc)

SpecList == InitList /\ [][NextList]_vars

\* C6 as stated: L[i:j] is a new RecordList whose ids are the ids of the
\* elements L[i], ..., L[j-1] in the same order, and which uses the Cache of L.
C6_AsStated ==
    last.op = "slice"
    => (/\ IdsOf(lists[last.made])
             = PySlice(IdsOf(lists[last.lst]), last.i, last.j)
        /\ lists[last.made].cache = lists[last.lst].cache)

\* the position list.insert gives the new element of a list of n elements
InsertPos(index, n) ==
    IF index < 0 THEN (IF index + n < 0 THEN 0 ELSE index + n)
    ELSE IF index > n THEN n ELSE index

\* s[index] of a Python list is defined
HasIndex(s, index) == index < Len(s) /\ index >= 0 - Len(s)

\* s[index] of a Python list (0-based; a negative index counts from the end)
PyAt(s, index) == s[(IF index < 0 THEN index + Len(s) ELSE index) + 1]

\* s without its element at the 0-based position p
Without(s, p) ==
    [q \in 1..(Len(s) - 1) |-> IF q <= p THEN s[q] ELSE s[q + 1]]

\* C8 as stated: after insert(index, id) the list is one longer, the element
\* at position index is a Record whose id is the given id, and the other
\* elements are the previous ones in their previous order.
C8_AsStated ==
    [][last'.op = "insert_id"
       => LET old == lists[last'.lst].items
              new == lists'[last'.lst].items
          IN /\ Len(new) = Len(old) + 1
             /\ HasIndex(new, last'.i)
             /\ PyAt(new, last'.i).id = last'.rid
             /\ Without(new, IF last'.i < 0 THEN last'.i + Len(new)
                             ELSE last'.i) = old]_vars

\* C8, amended: after insert(index, id) the list is one longer, the new
\* element is a Record whose id is the given id, it stands where list.insert
\* puts it (at index when 0 <= index <= length, at the end when index is
\* larger, at length + index or at the front when index is negative), and the
\* other elements are the previous ones in their previous order.
C8_Insert ==
    [][last'.op = "insert_id"
       => LET old == lists[last'.lst].items
              new == lists'[last'.lst].items
              pos == InsertPos(last'.i, Len(old))
          IN /\ Len(new) = Len(old) + 1
             /\ new[pos + 1].id = last'.rid
             /\ new[pos + 1].obj = lists[last'.lst].obj
             /\ Without(new, pos) = old]_vars

\* an id has been inserted at the front of a list of two elements
C8_Witness ==
    /\ last.op = "insert_id" /\ last.i = 0
    /\ Len(lists[last.lst].items) = 3
    /\ lists[last.lst].items[1].id = last.rid
    /\ lists[last.lst].items[2].id # last.rid

\* the Caches a list reads and writes through: its own and those of its Records
Foot(l) == {l.cache} \cup {l.items[p].cache : p \in 1..Len(l.items)}

\* the copy just made: same object type and ids, every Record on the Cache of
\* the copy; with new_cache that Cache is used by no other list or Record and
\* holds no data, without it it is the Cache of the source
CopyMade ==
    last.op = "copy"
    => LET s == lists[last.lst]
           c == lists[last.made]
       IN /\ c.obj = s.obj /\ IdsOf(c) = IdsOf(s)
          /\ Foot(c) = {c.cache}
          /\ IF last.flag
             THEN /\ \A k \in 1..Len(lists) :
                        k # last.made => c.cache \notin Foot(lists[k])
                  /\ \A n \in 1..Len(recs) : recs[n].cache # c.cache
                  /\ \A obj \in Objs, i \in Ids :
                        caches[c.cache][obj].data[i] = NoData
             ELSE c.cache = s.cache

\* the step is an operation through list k or one of its Records
Through(k) == last'.lst = k \/ last'.ref[1] = k

\* the step leaves what list k sees in its Caches as it was
Unseen(k) == \A c \in Foot(lists[k]) : caches'[c] = caches[c]

\* C9: copy(new_cache=True) returns a list over the same ids on a fresh Cache,
\* and the operation that follows through the copy (a read, prefetch, refresh,
\* insertion, or a copy that updates the context) changes nothing the source
\* sees, and the other way round; with new_cache=False the copy and its
\* Records use the Cache instance of the source.
C9_Copy ==
    [][/\ CopyMade'
       /\ (last.op = "copy" /\ last.flag)
          => (/\ Through(last.made) => Unseen(last.lst)
              /\ Through(last.lst) => Unseen(last.made))]_vars

\* a prefetch through a copy on a new Cache has filled the Cache of the copy
\* and left the Cache of the source without the data
C9_Witness ==
    /\ prev.op = "copy" /\ prev.flag
    /\ last.op = "prefetch" /\ last.lst = prev.made /\ last.result # RemoteError
    /\ \E i \in Range(IdsOf(lists[prev.lst])) :
          /\ caches[lists[prev.made].cache][lists[prev.made].obj].data[i] # NoData
          /\ caches[lists[prev.lst].cache][lists[prev.lst].obj].data[i] = NoData

\* the position of the first occurrence of x in s
FirstPos(s, x) == CHOOSE p \in 1..Len(s) : s[p] = x /\ \A q \in 1..(p - 1) : s[q] # x

\* the elements of s that are in keep, in their order
Kept(s, keep) == LET Test(x) == x \in keep IN SelectSeq(s, Test)

\* C10: existing(uniqify=True) returns a new RecordList whose ids are the ids
\* of the source that the remote reports as existing, each once, in the order
\* of their first occurrence; with uniqify=False all occurrences of those ids
\* are kept in their order.  The source list is left unchanged.
C10_Existing ==
    [][(last'.op = "existing" /\ last'.made # 0)
       => LET src == IdsOf(lists[last'.lst])
              new == IdsOf(lists'[last'.made])
          IN /\ last'.made \notin 1..Len(lists)
             /\ lists'[last'.lst] = lists[last'.lst]
             /\ IF last'.flag
                THEN /\ Range(new) = Range(src) \cap exists
                     /\ \A p, q \in 1..Len(new) :
                           p < q => FirstPos(src, new[p]) < FirstPos(src, new[q])
                ELSE new = Kept(src, exists)]_vars

\* a list with a repeated id and an id that no longer exists has been filtered
\* down to one occurrence of the repeated id
C10_Witness ==
    /\ last.op = "existing" /\ last.flag /\ last.made # 0
    /\ Len(lists[last.lst].items) = 3
    /\ Range(IdsOf(lists[last.lst])) = Ids
    /\ exists # Ids
    /\ Len(lists[last.made].items) = 1

----------------------------------------------------------------------------
(* Resolution of relation fields *)

\* record._get_many2one_rel_obj(name, raw, cached), as _get_field calls it
\* with the raw value it got from the cache; flag: cached
RecMany2One(ref, name, raw, cached) ==
    /\ nops < MaxOps /\ Valid(ref)
    /\ LET got == GetMany2OneRelObj(caches, RecAt(ref), name, raw, cached, nops + 1)
       IN /\ caches' = got.caches
          /\ recs' = RecsWith(ref, got.rec)
          /\ lists' = ListsWith(ref, got.rec)
          /\ Done([Blank EXCEPT !.op = "many2one", !.ref = ref, !.name = name,
                                !.flag = cached, !.raw = raw, !.entry = got.entry],
                  NoBatch)

\* record._get_one2many_rel_obj(name, relIds, cached); flag: cached
RecOne2Many(ref, name, relIds, cached) ==
    /\ nops < MaxOps /\ Valid(ref)
    /\ LET got == GetOne2ManyRelObj(caches, RecAt(ref), name, relIds, cached,
                                    nops + 1)
       IN /\ caches' = got.caches
          /\ recs' = RecsWith(ref, got.rec)
          /\ lists' = ListsWith(ref, got.rec)
          /\ Done([Blank EXCEPT !.op = "one2many", !.ref = ref, !.name = name,
                                !.flag = cached, !.ids = relIds,
                                !.entry = got.entry],
                  NoBatch)

NextRel ==
    \/ \E obj \in Objs, rid \in Ids, cref \in CacheArgs, ctx \in {NoneCtx, FrCtx} :
          NewRecord(obj, rid, cref, ctx)
    \/ \E ref \in Refs, raw \in RawVals, cached \in BOOLEAN :
          RecMany2One(ref, "company_id", raw, cached)
    \/ \E ref \in Refs, relIds \in NewIdLists, cached \in BOOLEAN :
          RecOne2Many(ref, "child_ids", relIds, cached)
    \/ \E ref \in Refs : RecRefresh(ref)

\* the caller of Init makes Records, resolves their relations and refreshes them
SpecRel == Init /\ [][NextRel]_vars

\* the Record at ref after the step
RecAfter(ref) ==
    IF ref[1] = 0 THEN recs'[ref[2]] ELSE lists'[ref[1]].items[ref[2]]

\* what is returned is a Record of the relation target of the field, with the
\* id of the raw value, on the Cache of the parent
ResolvedFrom(e, name, raw, parent) ==
    /\ e.kind = "record" /\ e.ids = <<RelId(raw)>>
    /\ e.obj = Relation(name) /\ e.cache = parent.cache

C12_Memo ==
    [][last'.op \in {"many2one", "one2many"}
       => LET old == RecAt(last'.ref).related[last'.name]
              new == RecAfter(last'.ref).related[last'.name]
              e == last'.entry
          IN IF old.kind # "none" /\ last'.flag
             THEN e = old /\ new = old
             ELSE /\ new = e
                  /\ e.kind \in {"record", "list"}
                     => (/\ e.stamp = nops' /\ e.stamp # old.stamp
                         /\ e.ids = IF last'.op = "many2one"
                                    THEN <<RelId(last'.raw)>> ELSE last'.ids)]_vars

\* a field resolved before has been resolved again with cached=False, into a new
\* instance with the same id, and once more with cached=True, into that instance
C12_Witness ==
    /\ nops = 3
    /\ prev.op = "many2one" /\ ~prev.flag /\ prev.ref = last.ref
    /\ last.op = "many2one" /\ last.flag
    /\ last.entry.kind = "record" /\ last.entry.stamp = 2
    /\ RecAt(last.ref).related[last.name] = last.entry

----------------------------------------------------------------------------
(* Attribute access: data fields and bound remote methods *)

\* names of remote methods of an Object
Methods == {"write"}

\* a call of a remote method of obj over ids with a context (NoneCtx: none)
MethodCall(obj, name, ids, ctx) ==
    [method |-> name, obj |-> obj, ids |-> Range(ids), fields |-> {}, ctx |-> ctx]

\* wpartial(method, [self.id]) of Record.__getattr__: no context is bound
RecordBound(cs, r) == Bound(<<r.id>>, NoneCtx)

\* wpartial(method, self.ids, context=self.context) of RecordList.__getattr__
ListBound(cs, l) == Bound(IdsOf(l), cs[l.cache][l.obj].ctx)

\* attribute access whose __getattr__ catches every exception, not KeyError only
GetAttrCatchAll(cs, r, name, orc) ==
    IF name \in r.attrs
    THEN [caches |-> cs, rec |-> r, calls |-> <<>>, result |-> Res("method", name),
          bound |-> RecordBound(cs, r), fresh |-> FALSE]
    ELSE LET got == GetItem(cs, r, name, orc)
         IN IF got.result \in {KeyError, RemoteError}
            THEN [caches |-> got.caches, rec |-> [r EXCEPT !.attrs = @ \cup {name}],
                  calls |-> got.calls, result |-> Res("method", name),
                  bound |-> RecordBound(got.caches, r), fresh |-> TRUE]
            ELSE [caches |-> got.caches, rec |-> r, calls |-> got.calls,
                  result |-> got.result, bound |-> NoBound, fresh |-> FALSE]

\* the attribute access record.<name>: what setattr memoized is found first,
\* without __getattr__; else __getattr__ tries the data field and, on KeyError,
\* binds and memoizes the method of the Object.  fresh: the method was bound now.
GetAttr(cs, r, name, orc) ==
    IF name \in r.attrs
    THEN [caches |-> cs, rec |-> r, calls |-> <<>>, result |-> Res("method", name),
          bound |-> RecordBound(cs, r), fresh |-> FALSE]
    ELSE LET got == GetItem(cs, r, name, orc)
         IN IF got.result = KeyError
            THEN [caches |-> got.caches, rec |-> [r EXCEPT !.attrs = @ \cup {name}],
                  calls |-> got.calls, result |-> Res("method", name),
                  bound |-> RecordBound(got.caches, r), fresh |-> TRUE]
            ELSE [caches |-> got.caches, rec |-> r, calls |-> got.calls,
                  result |-> got.result, bound |-> NoBound, fresh |-> FALSE]

\* record.<name>; flag: a method was bound by this access
RecGetAttr(ref, name, orc) ==
    /\ nops < MaxOps /\ Valid(ref)
    /\ LET got == GetAttr(caches, RecAt(ref), name, orc)
       IN /\ caches' = got.caches
          /\ recs' = RecsWith(ref, got.rec)
          /\ lists' = ListsWith(ref, got.rec)
          /\ Done([Blank EXCEPT !.op = "getattr", !.ref = ref, !.name = name,
                                !.calls = got.calls, !.result = got.result,
                                !.ans = Answer(got.calls, orc),
                                !.bound = got.bound, !.flag = got.fresh],
                  NoBatch)

\* record.<name>(...) for a method name: the access, then the remote call the
\* bound method makes; the remote call fails or returns
RecCallAttr(ref, name, orc) ==
    /\ nops < MaxOps /\ Valid(ref)
    /\ LET got == GetAttr(caches, RecAt(ref), name, NoAnswer)
           call == MethodCall(RecAt(ref).obj, name, got.bound.ids, got.bound.ctx)
       IN /\ got.result = Res("method", name)
          /\ caches' = got.caches
          /\ recs' = RecsWith(ref, got.rec)
          /\ lists' = ListsWith(ref, got.rec)
          /\ Done([Blank EXCEPT !.op = "callattr", !.ref = ref, !.name = name,
                                !.calls = got.calls \o <<call>>,
                                !.result = IF orc.fail THEN RemoteError
                                           ELSE Res("returned", None),
                                !.bound = got.bound, !.flag = got.fresh],
                  NoBatch)

\* list.<name>(...) for a method name: the remote call made by the bound method
LCallAttr(k, name, orc) ==
    /\ nops < MaxOps
    /\ LET b == ListBound(caches, lists[k])
       IN Done([Blank EXCEPT !.op = "list_callattr", !.lst = k, !.name = name,
                             !.calls = <<MethodCall(lists[k].obj, name, b.ids, b.ctx)>>,
                             !.result = IF orc.fail THEN RemoteError
                                        ELSE Res("returned", None),
                             !.bound = b],
               NoBatch)
    /\ UNCHANGED <<caches, recs, lists>>

NextAttr ==
    \/ \E obj \in Objs, rid \in Ids, cref \in CacheArgs, ctx \in {NoneCtx, FrCtx} :
          NewRecord(obj, rid, cref, ctx)
    \/ \E ids \in NewIdLists, cref \in CacheArgs, ctx \in {NoneCtx, FrCtx} :
          Len(lists) = 0 /\ NewList("res.partner", ids, NoFields, cref, ctx, NoAnswer)
    \/ \E ref \in Refs, name \in Methods \cup {"ref"}, orc \in Oracles :
          RecGetAttr(ref, name, orc)
    \/ \E ref \in Refs, name \in Methods, orc \in Oracles : RecCallAttr(ref, name, orc)
    \/ \E k \in 1..Len(lists), name \in Methods, orc \in Oracles :
          LCallAttr(k, name, orc)
    \/ \E ref \in Refs, orc \in Oracles : RecGetItem(ref, "name", orc)
    \/ \E k \in 1..Len(lists), orc \in Oracles : LPrefetch(k, {"name"}, orc)
    \/ \E ref \in Refs : RecRefresh(ref)

\* the caller of Init makes Records and lists, accesses attributes of them,
\* calls remote methods through them and refreshes them
SpecAttr == Init /\ [][NextAttr]_vars

\* C13 as stated: after refresh() the Record holds no memoized accessor.
C13_AsStated == last.op = "refresh" => RecAt(last.ref).attrs = {}

\* the context of the scope of a Record
ScopeCtx(r) == caches[r.cache][r.obj].ctx

\* C14 as stated: the attribute access on a Record for a name that is not a
\* data field returns a method bound with [record.id] and with the context of
\* the Record's scope, and invoking it passes that context to the remote call.
C14_AsStated ==
    (last.op \in {"getattr", "callattr"} /\ last.name \in Methods)
    => (/\ last.bound = Bound(<<RecAt(last.ref).id>>, ScopeCtx(RecAt(last.ref)))
        /\ last.op = "callattr"
           => last.calls[Len(last.calls)].ctx = ScopeCtx(RecAt(last.ref)))

\* the step is a field access or a prefetch whose remote read failed
ReadFailed ==
    /\ last'.op \in {"getitem", "getattr", "prefetch"}
    /\ last'.calls # <<>> /\ last'.ans = None

\* C18: when the remote read made by a field access (record[name] or
\* record.name) or by a prefetch fails, the operation ends with that failure,
\* it has made no other remote call, and the data cached in every scope is as
\* it was before the operation.
C18_Failure ==
    [][ReadFailed
       => (/\ last'.result = RemoteError
           /\ Len(last'.calls) = 1
           /\ Len(caches') = Len(caches)
           /\ \A c \in 1..Len(caches), o \in Objs :
                 caches'[c][o].data = caches[c][o].data)]_vars

\* an attribute access to a data field has failed with the failure of its
\* read, in a scope that held data of another id
C18_Witness ==
    /\ last.op = "getattr" /\ last.name \in Fields
    /\ last.result = RemoteError /\ Len(last.calls) = 1
    /\ \E i \in Ids : /\ i # RecAt(last.ref).id
                      /\ caches[RecAt(last.ref).cache][RecAt(last.ref).obj]
                            .data[i] # NoData

\* C22 as stated: the attribute access on a Record for a name that is a data
\* field never returns a bound remote method and never memoizes one under that
\* name; it returns the value of the field or fails, also when the remote read
\* returns no row for the id of the Record.
C22_AsStated ==
    (last.op = "getattr" /\ last.name \in Fields)
    => (/\ last.result.kind # "method"
        /\ last.name \notin RecAt(last.ref).attrs)

----------------------------------------------------------------------------
(* The factories: get_record, get_record_list, read_records *)

MaxFactoryOps == 2

\* object.read_records(rid, fields, context, cache) for an integer rid; when the
\* read of the fields fails, no Record is returned
NewReadRecord(obj, rid, fields, ctx, cref, orc) ==
    /\ nops < MaxOps /\ Len(recs) < MaxRecs /\ CanMake(0)
    /\ LET made == ReadRecordsInt(caches, obj, rid, fields, ctx, cref, orc)
       IN /\ caches' = made.caches
          /\ recs' = IF made.result = RemoteError THEN recs
                     ELSE Append(recs, made.rec)
          /\ Done([Blank EXCEPT !.op = "read_record",
                                !.ref = IF made.result = RemoteError THEN NoRef
                                        ELSE <<0, Len(recs) + 1>>,
                                !.rid = rid, !.ctx = ctx, !.names = fields.names,
                                !.fnone = fields.none, !.cref = cref,
                                !.calls = made.calls, !.result = made.result,
                                !.ans = Answer(made.calls, orc)],
                  NoBatch)
    /\ UNCHANGED lists

\* object.read_records(ids, fields, context, cache) for a list of ids
NewReadList(obj, ids, fields, ctx, cref, orc) ==
    /\ nops < MaxOps /\ Len(lists) < MaxLists /\ CanMake(0)
    /\ LET made == ReadRecordsList(caches, obj, ids, fields, ctx, cref, orc)
       IN /\ caches' = made.caches
          /\ lists' = IF made.result = RemoteError THEN lists
                      ELSE Append(lists, made.list)
          /\ Done([Blank EXCEPT !.op = "read_records",
                                !.made = IF made.result = RemoteError THEN 0
                                         ELSE Len(lists) + 1,
                                !.names = fields.names, !.fnone = fields.none,
                                !.cref = cref, !.ctx = ctx, !.ids = ids,
                                !.calls = made.calls, !.result = made.result,
                                !.ans = Answer(made.calls, orc)],
                  NoBatch)
    /\ UNCHANGED recs

\* the fields argument of a factory with the answer of the remote: without
\* fields the remote is not asked
FieldArgs ==
    {<<NoFields, NoAnswer>>} \cup {<<SomeFields({"name"}), orc>> : orc \in Oracles}

NextFactory ==
    \/ \E obj \in Objs, rid \in Ids, cref \in CacheArgs, ctx \in {NoneCtx, FrCtx} :
          nops < MaxFactoryOps /\ NewRecord(obj, rid, cref, ctx)
    \/ \E ids \in NewIdLists, fa \in FieldArgs, cref \in CacheArgs,
          ctx \in {NoneCtx, FrCtx} :
          nops < MaxFactoryOps
          /\ NewList("res.partner", ids, fa[1], cref, ctx, fa[2])
    \/ \E rid \in Ids, fa \in FieldArgs, cref \in CacheArgs, ctx \in {NoneCtx, FrCtx} :
          nops < MaxFactoryOps
          /\ NewReadRecord("res.partner", rid, fa[1], ctx, cref, fa[2])
    \/ \E ids \in NewIdLists, fa \in FieldArgs, cref \in CacheArgs,
          ctx \in {NoneCtx, FrCtx} :
          nops < MaxFactoryOps
          /\ NewReadList("res.partner", ids, fa[1], ctx, cref, fa[2])

\* the caller of Init makes Records and lists through the factories
SpecFactory == Init /\ [][NextFactory]_vars

\* the step is a construction through a factory
Constructs ==
    last'.op \in {"get_record", "get_record_list", "read_record", "read_records"}

Registered == IF last'.made = 0 THEN {} ELSE Range(IdsOf(lists'[last'.made]))

\* the scope (c, o) after the step differs from what it was (an empty scope,
\* for a Cache made by the step) at most by ids registered and by the given
\* context merged
OnlyBookkeeping(c, o) ==
    LET was == IF c <= Len(caches) THEN caches[c][o] ELSE EmptyScope
        now == caches'[c][o]
    IN /\ now.data = was.data
       /\ was.keys \subseteq now.keys /\ now.keys \subseteq was.keys \cup Registered
       /\ now.ctx \in {was.ctx, MergeCtx(was.ctx, last'.ctx)}

C19_AsStated ==
    (last.op \in {"read_record", "read_records"} /\ last.cref # 0
       /\ last.result # RemoteError)
    => IF last.op = "read_record" THEN RecAt(last.ref).cache = last.cref
       ELSE lists[last.made].cache = last.cref

----------------------------------------------------------------------------
(* Remote search through a RecordList, and contexts given to one call *)

\* a term (field, operator, value) of a search domain; the value is a list of
\* ids or a single value
Term(field, op, ids, val) == [field |-> field, op |-> op, ids |-> ids, val |-> val]
Domains == {<<>>, <<Term("name", "=", <<>>, "a")>>}

\* _new_context that returns the context of the list whatever is given
ListNewContextOwn(cs, l, ctx) == cs[l.cache][l.obj].ctx

\* RecordList._new_context(new_context)
ListNewContext(cs, l, ctx) ==
    LET own == cs[l.cache][l.obj].ctx
    IN IF ctx.none THEN own
       ELSE [none |-> FALSE,
             lang |-> IF ctx.lang # None THEN ctx.lang
                      ELSE IF own.none THEN None ELSE own.lang]

SearchCall(obj, domain, ctx) ==
    [method |-> "search", obj |-> obj, ids |-> {}, fields |-> {}, ctx |-> ctx,
     domain |-> domain]

\* what the remote search answers when it does not fail: the existing ids of
\* the list that match the domain (all of them, or none)
SearchAnswer(l, orc) ==
    IF orc.val = "a"
    THEN FilterExisting(IdsOf(l), Range(IdsOf(l)) \cap exists, TRUE, <<>>)
    ELSE <<>>

\* RecordList.search(domain, context=ctx)
ListSearch(cs, l, domain, ctx, orc) ==
    LET call == SearchCall(l.obj, <<Term("id", "in", IdsOf(l), None)>> \o domain,
                           ListNewContext(cs, l, ctx))
    IN [calls |-> <<call>>, found |-> IF orc.fail THEN <<>> ELSE SearchAnswer(l, orc),
        result |-> IF orc.fail THEN RemoteError ELSE Res("ids", None)]

\* RecordList.search_records(domain, context=ctx): ObjectRecords.search_records
\* searches and builds a RecordList of the ids found, with the context it got
ListSearchRecords(cs, l, domain, ctx, orc) ==
    LET s == ListSearch(cs, l, domain, ctx, orc)
        made == RecordListInit(cs, l.obj, Iter(s.found, FALSE), NoFields, 0,
                               s.calls[1].ctx, NoAnswer)
    IN IF orc.fail
       THEN [caches |-> cs, list |-> l, calls |-> s.calls, result |-> RemoteError]
       ELSE [caches |-> made.caches, list |-> made.list, calls |-> s.calls,
             result |-> NoRes]

\* list.search(domain, context=ctx); ids: the ids found
LSearch(k, domain, ctx, orc) ==
    /\ nops < MaxOps
    /\ LET s == ListSearch(caches, lists[k], domain, ctx, orc)
       IN Done([Blank EXCEPT !.op = "search", !.lst = k, !.domain = domain,
                             !.ctx = ctx, !.calls = s.calls, !.result = s.result,
                             !.ids = s.found],
               NoBatch)
    /\ UNCHANGED <<caches, recs, lists>>

\* list.search_records(domain, context=ctx)
LSearchRecords(k, domain, ctx, orc) ==
    /\ nops < MaxOps /\ Len(lists) < MaxLists /\ CanMake(0)
    /\ LET made == ListSearchRecords(caches, lists[k], domain, ctx, orc)
       IN /\ caches' = made.caches
          /\ lists' = IF orc.fail THEN lists ELSE Append(lists, made.list)
          /\ Done([Blank EXCEPT !.op = "search_records", !.lst = k,
                                !.domain = domain, !.ctx = ctx,
                                !.made = IF orc.fail THEN 0 ELSE Len(lists) + 1,
                                !.calls = made.calls, !.result = made.result],
                  NoBatch)
    /\ UNCHANGED recs

NextCtx ==
    \/ \E ids \in NewIdLists, cref \in CacheArgs, ctx \in {NoneCtx, FrCtx} :
          Len(lists) = 0 /\ NewList("res.partner", ids, NoFields, cref, ctx, NoAnswer)
    \/ \E k \in 1..Len(lists), domain \in Domains, ctx \in {NoneCtx, EnCtx},
          orc \in Oracles : LSearch(k, domain, ctx, orc)
    \/ \E k \in 1..Len(lists), domain \in Domains, ctx \in {NoneCtx, EnCtx},
          orc \in Oracles : LSearchRecords(k, domain, ctx, orc)
    \/ \E ref \in Refs, ctx \in {NoneCtx, EnCtx}, multi \in BOOLEAN, orc \in Oracles :
          RecRead(ref, {"name"}, ctx, multi, orc)

\* the caller of Init makes a list, with or without a context, searches through
\* it and reads through Records, giving a context to the call or not
SpecCtx == Init /\ [][NextCtx]_vars

\* the stored context own overridden by the context given to one call
Overridden(own, ctx) ==
    [none |-> own.none /\ ctx.none,
     lang |-> IF ~ctx.none /\ ctx.lang # None THEN ctx.lang ELSE own.lang]

\* the step leaves the context of every scope as it was
ContextsKept ==
    \A c \in 1..Len(caches), o \in Objs : caches'[c][o].ctx = caches[c][o].ctx

\* C16: search and search_records issue one remote search, whose domain is
\* ('id', 'in', ids of the list) followed by the given domain and whose context
\* is the context of the list overridden by the context given; the context of
\* every scope is the same after the call as before it.
C16_Search ==
    [][last'.op \in {"search", "search_records"}
       => LET l == lists[last'.lst]
          IN /\ last'.calls
                  = <<SearchCall(l.obj,
                                 <<Term("id", "in", IdsOf(l), None)>> \o last'.domain,
                                 Overridden(caches[l.cache][l.obj].ctx, last'.ctx))>>
             /\ ContextsKept]_vars

\* a search through a list with a stored context has been given another
\* context: the call carried the given one and the stored one is still there
C16_Witness ==
    /\ last.op = "search" /\ last.ctx = EnCtx /\ Len(last.domain) = 1
    /\ Len(lists[last.lst].items) = 2
    /\ caches[lists[last.lst].cache][lists[last.lst].obj].ctx = FrCtx
    /\ last.calls[1].ctx = EnCtx /\ Len(last.calls[1].domain) = 2

\* C17 as stated: Record.read(fields, context=c) issues the remote read with
\* the stored context overridden by c, and leaves the stored context as it was.
C17_AsStated ==
    [][last'.op = "read"
       => (/\ last'.calls[1].ctx = Overridden(ScopeCtx(RecAt(last'.ref)), last'.ctx)
           /\ ContextsKept)]_vars

----------------------------------------------------------------------------
(* The Cache of the Records of a list *)

\* C20 as stated: in every reachable state, every Record contained in a
\* RecordList uses the same Cache instance as the RecordList itself.
C20_AsStated ==
    \A k \in 1..Len(lists) :
       \A p \in 1..Len(lists[k].items) : lists[k].items[p].cache = lists[k].cache

----------------------------------------------------------------------------
(* Relation fields read through the shared Cache *)

\* What the remote answers to a read of the many2one column: it fails, or its
\* rows carry the raw value the remote has at that time.
RelOracles ==
    {[fail |-> TRUE, raw |-> RawFalse]}
    \cup {[fail |-> FALSE, raw |-> w] : w \in RawVals}

\* lcache.get_ids_to_read(name) for the many2one column
GetRelIdsToRead(sc) == {i \in sc.keys : sc.rel[i].kind = "absent"}

\* the rows of a read of the many2one column stored for the ids read
CacheRel(sc, ids, raw) ==
    [sc EXCEPT !.keys = @ \cup ids,
               !.rel = [i \in Ids |-> IF i \in ids THEN raw ELSE @[i]]]

\* RecordRelations._get_field('many2one', name): the raw value through
\* Record._get_field, then its resolution with cached=True
GetFieldMany2One(cs, r, name, orc, stamp) ==
    LET sc0 == Vivify(cs[r.cache][r.obj], r.id)
        held == sc0.rel[r.id].kind # "absent"
        ids == GetRelIdsToRead(sc0)
        call == ReadCall(r.obj, ids, {name}, sc0.ctx)
        sc1 == IF held THEN sc0 ELSE CacheRel(sc0, ids \cap exists, orc.raw)
        cs1 == SetScope(cs, r.cache, r.obj, sc1)
        got == GetMany2OneRelObj(cs1, r, name, sc1.rel[r.id], TRUE, stamp)
    IN IF ~held /\ orc.fail
       THEN [caches |-> SetScope(cs, r.cache, r.obj, sc0), rec |-> r,
             calls |-> <<call>>, result |-> RemoteError, entry |-> NoEntry]
       ELSE IF sc1.rel[r.id].kind = "absent"
       THEN [caches |-> cs1, rec |-> r, calls |-> <<call>>, result |-> KeyError,
             entry |-> NoEntry]
       ELSE [caches |-> got.caches, rec |-> got.rec,
             calls |-> IF held THEN <<>> ELSE <<call>>,
             result |-> Res("relation", None), entry |-> got.entry]

\* Record.read([name]) for the many2one column
RecordReadMany2One(cs, r, name, orc) ==
    LET sc == cs[r.cache][r.obj]
        sent == IF sc.ctx.none \/ sc.ctx.lang = None THEN NoneCtx ELSE sc.ctx
        call == ReadCall(r.obj, {r.id}, {name}, sent)
    IN IF orc.fail
       THEN [caches |-> cs, calls |-> <<call>>, result |-> RemoteError]
       ELSE [caches |-> SetScope(cs, r.cache, r.obj,
                                 CacheRel(sc, {r.id} \cap exists, orc.raw)),
             calls |-> <<call>>,
             result |-> IF r.id \in exists THEN Res("row", None)
                        ELSE Res("empty", None)]

\* record[name] or record.<name> for the many2one column
RecGetRel(ref, name, orc) ==
    /\ nops < MaxOps /\ Valid(ref)
    /\ LET got == GetFieldMany2One(caches, RecAt(ref), name, orc, nops + 1)
       IN /\ caches' = got.caches
          /\ recs' = RecsWith(ref, got.rec)
          /\ lists' = ListsWith(ref, got.rec)
          /\ Done([Blank EXCEPT !.op = "getrel", !.ref = ref, !.name = name,
                                !.calls = got.calls, !.result = got.result,
                                !.raw = orc.raw, !.entry = got.entry],
                  NoBatch)

\* record.read([name]) for the many2one column
RecReadRel(ref, name, orc) ==
    /\ nops < MaxOps /\ Valid(ref)
    /\ LET got == RecordReadMany2One(caches, RecAt(ref), name, orc)
       IN /\ caches' = got.caches
          /\ Done([Blank EXCEPT !.op = "read_rel", !.ref = ref, !.name = name,
                                !.calls = got.calls, !.result = got.result,
                                !.raw = orc.raw],
                  NoBatch)
    /\ UNCHANGED <<recs, lists>>

NextRaw ==
    \/ \E rid \in Ids, cref \in CacheArgs :
          NewRecord("res.partner", rid, cref, NoneCtx)
    \/ \E ref \in Refs, orc \in RelOracles : RecGetRel(ref, "company_id", orc)
    \/ \E ref \in Refs, orc \in RelOracles : RecReadRel(ref, "company_id", orc)
    \/ \E ref \in Refs : RecRefresh(ref)

\* the caller of Init makes Records, some of them sharing a Cache, accesses
\* their many2one field, reads it again and refreshes them
SpecRaw == Init /\ [][NextRaw]_vars

\* C23 as stated: whenever the access to a relation field returns a resolved
\* Record, the id of that Record is the id in the raw value cached for the
\* field at that time, also after Record.read or a refresh and re-fetch through
\* another Record of the same id on the same Cache replaced the raw value.
C23_AsStated ==
    (last.op = "getrel" /\ last.entry.kind = "record")
    => LET r == RecAt(last.ref)
       IN last.entry.ids = <<RelId(caches[r.cache][r.obj].rel[r.id])>>

----------------------------------------------------------------------------
(* refresh() over the Records and RecordLists resolved through a Record *)

MaxGraphOps == 4
MaxInst == 3

\* the Record a memoized entry stands for, as the resolution made it
EntryRecord(e, p) ==
    [obj |-> e.obj, id |-> e.ids[p], cache |-> e.cache, related |-> NoRelated,
     attrs |-> {}]

\* the RecordList a memoized entry stands for, as the resolution made it
EntryList(e) ==
    [obj |-> e.obj, cache |-> e.cache,
     items |-> [p \in 1..Len(e.ids) |-> EntryRecord(e, p)]]

\* The caller keeps what a relation access returned: a resolved Record becomes
\* recs[stamp], a resolved RecordList lists[stamp], stamp being the stamp of
\* the memoized entry.

\* record.<name> for a many2one field whose raw value is raw: the resolution
\* as _get_field calls it (cached=True)
GMany2One(ref, name, raw) ==
    /\ nops < MaxGraphOps /\ Valid(ref) /\ pending = <<>> /\ Len(recs) < MaxInst
    /\ LET got == GetMany2OneRelObj(caches, RecAt(ref), name, raw, TRUE,
                                    Len(recs) + 1)
           made == got.entry.kind = "record" /\ got.entry.stamp = Len(recs) + 1
       IN /\ caches' = got.caches
          /\ recs' = IF made
                     THEN Append(RecsWith(ref, got.rec), EntryRecord(got.entry, 1))
                     ELSE RecsWith(ref, got.rec)
          /\ lists' = ListsWith(ref, got.rec)
          /\ Done([Blank EXCEPT !.op = "many2one", !.ref = ref, !.name = name,
                                !.flag = TRUE, !.raw = raw, !.entry = got.entry],
                  NoBatch)

\* record.<name> for a one2many field whose raw value is relIds
GOne2Many(ref, name, relIds) ==
    /\ nops < MaxGraphOps /\ Valid(ref) /\ pending = <<>> /\ Len(lists) < MaxLists
    /\ LET got == GetOne2ManyRelObj(caches, RecAt(ref), name, relIds, TRUE,
                                    Len(lists) + 1)
           made == got.entry.kind = "list" /\ got.entry.stamp = Len(lists) + 1
       IN /\ caches' = got.caches
          /\ recs' = RecsWith(ref, got.rec)
          /\ lists' = IF made
                      THEN Append(ListsWith(ref, got.rec), EntryList(got.entry))
                      ELSE ListsWith(ref, got.rec)
          /\ Done([Blank EXCEPT !.op = "one2many", !.ref = ref, !.name = name,
                                !.flag = TRUE, !.ids = relIds, !.entry = got.entry],
                  NoBatch)

\* the refresh() calls made for one memoized relation: that of the Record, or,
\* by the loop of RecordList.refresh, those of the Records of the list in order
EntryCalls(ls, e) ==
    IF e.kind = "record" THEN << <<0, e.stamp>> >>
    ELSE IF e.kind = "list"
    THEN [p \in 1..Len(ls[e.stamp].items) |-> <<e.stamp, p>>]
    ELSE <<>>

\* refresh() that resets the relation map without refreshing what was in it
RefreshCallAlone(cs, r, ls, first, rest) ==
    [caches |-> RecordRefresh(cs, r),
     rec |-> [r EXCEPT !.related = NoRelated],
     pending |-> rest]

\* One call of RecordRelations.refresh up to its loop: the refresh of the base
\* class, the relation map taken and reset.  The calls its loop makes come
\* before the calls still to be made (rest); the loop visits the memoized
\* relations in the order of the dictionary, first giving the one visited first.
RefreshCall(cs, r, ls, first, rest) ==
    LET second == CHOOSE n \in RelFields : n # first
    IN [caches |-> RecordRefresh(cs, r),
        rec |-> [r EXCEPT !.related = NoRelated],
        pending |-> EntryCalls(ls, r.related[first])
                    \o EntryCalls(ls, r.related[second]) \o rest]

\* the Cache, object type and id of the Record at ref
KeyOf(ref) == <<RecAt(ref).cache, RecAt(ref).obj, RecAt(ref).id>>

\* the Records resolved through the Record at ref, directly or through a Record
\* resolved through it (to the given depth)
RECURSIVE Under(_, _)
Under(ref, depth) ==
    IF depth = 0 THEN {}
    ELSE LET direct == UNION {Range(EntryCalls(lists, RecAt(ref).related[n])) :
                                 n \in RelFields}
         IN direct \cup UNION {Under(x, depth - 1) : x \in direct}

\* some field of the id of the key is cached
HasData(key) == caches[key[1]][key[2]].data[key[3]] # NoData

\* record.refresh() is called; keys: the Cache, type and id of every Record
\* resolved through it; flag: some of them had cached data; i: how many Records
\* were resolved through it, j: how many of them directly
GRefresh(ref) ==
    /\ nops < MaxGraphOps /\ Valid(ref) /\ pending = <<>>
    /\ pending' = <<ref>>
    /\ last' = [Blank EXCEPT !.op = "refresh", !.ref = ref,
                             !.keys = {KeyOf(x) : x \in Under(ref, MaxGraphOps)},
                             !.flag = \E x \in Under(ref, MaxGraphOps) :
                                         HasData(KeyOf(x)),
                             !.i = Cardinality(Under(ref, MaxGraphOps)),
                             !.j = Cardinality(Under(ref, 1))]
    /\ prev' = Brief(last)
    /\ batch' = NoBatch
    /\ nops' = nops + 1
    /\ UNCHANGED <<caches, recs, lists, exists>>

\* the refresh in progress makes its next refresh() call
GRefreshStep(first) ==
    /\ pending # <<>>
    /\ LET ref == Head(pending)
           c == RefreshCall(caches, RecAt(ref), lists, first, Tail(pending))
       IN /\ caches' = c.caches
          /\ recs' = RecsWith(ref, c.rec)
          /\ lists' = ListsWith(ref, c.rec)
          /\ pending' = c.pending
    /\ UNCHANGED <<exists, last, prev, batch, nops>>

GraphRaws == {RawFalse, RawId(1), RawPair(2)}
GraphIdLists == {<<>>, <<1>>, <<1, 2>>}

NextGraph ==
    \/ \E ref \in Refs, raw \in GraphRaws : GMany2One(ref, "company_id", raw)
    \/ \E ref \in Refs, relIds \in GraphIdLists : GOne2Many(ref, "child_ids", relIds)
    \/ \E ref \in Refs, orc \in Oracles :
          pending = <<>> /\ RecGetItem(ref, "name", orc)
    \/ \E ref \in Refs : GRefresh(ref)
    \/ \E first \in RelFields : GRefreshStep(first)

\* The caller of Init accesses relation fields of the Records it holds, reads
\* data fields through them and refreshes them.  A refresh() that was called
\* goes on to its next call: the interpreter runs the one thread of the caller.
SpecGraph ==
    Init /\ [][NextGraph]_vars /\ WF_vars(\E first \in RelFields : GRefreshStep(first))

\* no field of the id of the key is cached
Cleared(key) ==
    /\ caches[key[1]][key[2]].data[key[3]] = NoData
    /\ caches[key[1]][key[2]].rel[key[3]].kind = "absent"

\* refresh() has returned
Returned == last.op = "refresh" /\ pending = <<>>

\* C21: refresh() on a relation-aware Record terminates, whatever relations
\* were resolved through it (also relations that lead back to its own id), and
\* when it returns the relation map of the Record is empty, no field of its id
\* is cached, and no field is cached of any Record, or element of a
\* RecordList, resolved through it.
C21_Refresh ==
    /\ (pending # <<>>) ~> (pending = <<>>)
    /\ [](Returned => (/\ RecAt(last.ref).related = NoRelated
                       /\ Cleared(KeyOf(last.ref))
                       /\ \A key \in last.keys : Cleared(key)))

\* a refresh has returned on a Record through which a Record of its own type
\* and id was resolved, and through a Record resolved through it a Record of
\* another type, with data cached for some of them before the call
C21_Witness ==
    /\ Returned /\ last.flag
    /\ KeyOf(last.ref) \in last.keys
    /\ last.i > last.j
    /\ \E key \in last.keys : key[2] # RecAt(last.ref).obj

----------------------------------------------------------------------------
(* The context of a list and of its copies *)

\* C24 as stated: copy(context=c) applies c to the returned copy only: with
\* new_cache=False as with new_cache=True, the context seen through the source
\* list is the same after the call as before it.
C24_AsStated ==
    [][last'.op = "copy"
       => LET l == lists[last'.lst]
          IN caches'[l.cache][l.obj].ctx = caches[l.cache][l.obj].ctx]_vars

====
